---- MODULE Spec2Model ----
(***************************************************************************)
(* The `movable` action of @svelte-put/movable                             *)
(* (src/packages/actions/movable/src/movable.ts) as a state machine.       *)
(*                                                                         *)
(* One attached instance: the closure variables of the action, the part of *)
(* the DOM the action reads and writes (the node's inline offsets and      *)
(* positioning, the cursor of the elements it touches, the body's          *)
(* user-select and cursor, the listeners it registers), and the handlers   *)
(* the browser and Svelte may call: mousedown on an element, mousemove and *)
(* mouseup on the window, the deferred tick callback, update and destroy.  *)
(*                                                                         *)
(* Lengths are whole numbers of HALF pixels, so that fractional layout     *)
(* (a 50% margin of a 1px node, a container edge at x.5) is representable  *)
(* and parseInt's truncation in onMouseDown is not the identity.           *)
(***************************************************************************)
EXTENDS Integers, Sequences, FiniteSets, TLC

VARIABLES
    \* closure variables of one instance (movable.ts 109-114)
    parent,             \* "none" | "screen" | "container"
    normalizedDelta,    \* [x |-> [unit, value], y |-> [unit, value]]
    handle,             \* element the press listener is put on
    enabled,            \* BOOLEAN
    ignore,             \* set of 0 or 1 selectors (empty: no selector)
    cursor,             \* BOOLEAN
    lastMousePosition,  \* [x, y]
    lastNodePosition,   \* [top, left]
    SigmaDx,            \* total displacement in x-axis
    SigmaDy,            \* total displacement in y-axis
    \* the DOM the instance reads and writes
    nodeStyle,          \* [position, left, top]: the node's computed style
    layout,             \* [x, y, width, height]: the node's box at offset 0
    elementCursor,      \* element -> its style.cursor
    bodyStyle,          \* [userSelect, cursor] of document.body.style
    mousedownListeners, \* elements onMouseDown is registered on
    windowListeners,    \* subset of {"mousemove", "mouseup"}
    pendingTicks,       \* tick().then(addCursor) callbacks not yet run
    \* observers
    event,              \* the call last made: [type, target, dispatched]
    notified,           \* the latest notifications dispatched, oldest first
    attached,           \* FALSE once destroy has been called
    session,            \* at the press that began the session: the body's
                        \* style before it and, while nothing clamps, the
                        \* pointer and the offsets read
    seen,               \* what a movablestart listener found when it last ran
    hostCursor,         \* element -> the style.cursor the host gave it
    \* a second instance, attached to another node of the same document
    peer                \* [windowListeners, cursor] of its closure

config == <<parent, normalizedDelta, handle, enabled, ignore, cursor>>
drag == <<lastMousePosition, lastNodePosition, SigmaDx, SigmaDy>>
dom == <<nodeStyle, layout, elementCursor, bodyStyle, mousedownListeners,
         windowListeners, pendingTicks>>
observers == <<event, notified, attached, session, seen, hostCursor>>
vars == <<config, drag, dom, observers, peer>>

----------------------------------------------------------------------------
(* Bounds of the model *)

\* pointer coordinates are whole pixels 0..MaxClientX, 0..MaxClientY
MaxClientX == 2
MaxClientY == 1
\* the viewport is InnerWidth x InnerHeight pixels
InnerWidth == 3
InnerHeight == 2
\* a move that takes an offset or a total displacement out of
\* -MaxOffset..MaxOffset pixels is not drawn
MaxOffset == 2
\* at most this many tick callbacks are pending at once
MaxPending == 1
\* the number of latest notifications `notified` keeps
MaxNotified == 2

\* n pixels, in half pixels
Px(n) == 2 * n

Abs(n) == IF n < 0 THEN -n ELSE n

----------------------------------------------------------------------------
(* The document: the node and what is inside it *)

\* node > grip > field > label; `field` is what the ignore selector matches
Elements == {"node", "grip", "field", "label"}

Children(e) ==
    CASE e = "node" -> {"grip"}
      [] e = "grip" -> {"field"}
      [] e = "field" -> {"label"}
      [] OTHER -> {}

\* the elements strictly inside e
Descendants(e) ==
    LET c1 == Children(e)
        c2 == UNION {Children(c) : c \in c1}
        c3 == UNION {Children(c) : c \in c2}
    IN  c1 \cup c2 \cup c3

\* Element.querySelectorAll: the descendants of e the selector matches
querySelectorAll(e, selector) ==
    IF selector = ".field" THEN Descendants(e) \cap {"field"} ELSE {}

\* window.innerWidth / innerHeight as a rectangle (movable.ts 162-167)
screenRect ==
    [top |-> 0, bottom |-> Px(InnerHeight), left |-> 0, right |-> Px(InnerWidth)]

\* parent.getBoundingClientRect(): a container with edges off the pixel grid
containerRect ==
    [top |-> 1, bottom |-> Px(InnerHeight), left |-> Px(1), right |-> Px(InnerWidth) - 1]

\* node.getBoundingClientRect(): the box at offset 0, moved by the offsets
\* while the node is positioned
getBoundingClientRect ==
    LET positioned == nodeStyle.position # "static"
        dx == IF positioned /\ ~nodeStyle.left.auto THEN nodeStyle.left.v ELSE 0
        dy == IF positioned /\ ~nodeStyle.top.auto THEN nodeStyle.top.v ELSE 0
    IN  [left |-> layout.x + dx, right |-> layout.x + dx + layout.width,
         top |-> layout.y + dy, bottom |-> layout.y + dy + layout.height,
         width |-> layout.width, height |-> layout.height]

\* a computed offset: "auto", or a length in half pixels
Auto == [auto |-> TRUE, v |-> 0]
Length(v) == [auto |-> FALSE, v |-> v]

\* parseInt(value.match('^[-0-9]+')?.[0] ?? '0') of a computed offset
\* (movable.ts 243-245): "auto" has no match and gives 0; "12.5px" matches
\* "12", "-12.5px" matches "-12", "-0.5px" matches "-0": the pixels,
\* truncated toward zero
parseOffset(value) ==
    IF value.auto THEN 0
    ELSE IF value.v >= 0 THEN Px(value.v \div 2) ELSE -Px((-value.v) \div 2)

----------------------------------------------------------------------------
(* input(node, parameters): the parameters, resolved *)

\* an optional parameter is a set of no or one value
Default(opt, d) == IF opt = {} THEN d ELSE CHOOSE v \in opt : TRUE

\* one axis of limit.delta: a number or numeric string is pixels, a string
\* ending in % a percentage, anything else 0px
normalizeAxis(raw) ==
    CASE raw.form = "number" -> [unit |-> "px", value |-> raw.value]
      [] raw.form = "percent" -> [unit |-> "%", value |-> raw.value]
      [] OTHER -> [unit |-> "px", value |-> 0]

input(parameters) ==
    [parent |-> Default(parameters.parent, "none"),
     normalizedDelta |-> [x |-> normalizeAxis(parameters.delta.x),
                          y |-> normalizeAxis(parameters.delta.y)],
     handle |-> Default(parameters.handle, "node"),
     enabled |-> Default(parameters.enabled, TRUE),
     ignore |-> parameters.ignore,
     cursor |-> Default(parameters.cursor, TRUE)]

----------------------------------------------------------------------------
(* Helpers of the handlers *)

\* "Dragging": the session's window listeners are installed
Dragging == windowListeners # {}

getIgnoredElements ==
    UNION {querySelectorAll(handle, selector) : selector \in ignore}

\* boundX / boundY (movable.ts 139-157): a switch with no default case
boundOf(delta, size) ==
    CASE delta.unit = "%" -> (delta.value * size) \div 100
      [] delta.unit = "px" -> Px(delta.value)
      [] OTHER -> 0

boundX == boundOf(normalizedDelta.x, getBoundingClientRect.width)
boundY == boundOf(normalizedDelta.y, getBoundingClientRect.height)

\* no boundary and no limit: nothing clamps
Free == parent = "none" /\ boundX = 0 /\ boundY = 0

insideBoundingRect == IF parent = "screen" THEN screenRect ELSE containerRect

\* one axis of the clamp against a boundary (movable.ts 172-180, 182-190):
\* `position` is the candidate offset, near/far the box's edges now
clampInside(position, near, far, d, bound, insideNear, insideFar) ==
    LET newAbsNear == near + d + bound
        newAbsFar == far + d - bound
    IN  IF newAbsNear < insideNear THEN position + (insideNear - newAbsNear)
        ELSE IF newAbsFar > insideFar THEN position - (newAbsFar - insideFar)
        ELSE position

\* clampTotal without its lower branch: the total is only kept from above
clampTotalAboveOnly(position, last, sigma, bound) ==
    IF bound > 0
    THEN LET newSigma == sigma + position - last
         IN  IF newSigma > bound THEN position - (newSigma - bound) ELSE position
    ELSE position

\* clampTotal refusing a move that would pass the limit, instead of
\* shortening it to the limit
clampTotalRefusing(position, last, sigma, bound) ==
    IF bound > 0
    THEN LET newSigma == sigma + position - last
         IN  IF newSigma > bound \/ newSigma < -bound THEN last ELSE position
    ELSE position

\* clampTotal taking a limit of 0 for a limit: `bound >= 0` for `bound > 0`
clampTotalZeroLimit(position, last, sigma, bound) ==
    IF bound >= 0
    THEN LET newSigma == sigma + position - last
         IN  IF newSigma > bound THEN position - (newSigma - bound)
             ELSE IF newSigma < -bound THEN position - (newSigma + bound)
             ELSE position
    ELSE position

\* one axis of the clamp of the total displacement (movable.ts 192-199,
\* 201-208)
clampTotal(position, last, sigma, bound) ==
    IF bound > 0
    THEN LET newSigma == sigma + position - last
         IN  IF newSigma > bound THEN position - (newSigma - bound)
             ELSE IF newSigma < -bound THEN position - (newSigma + bound)
             ELSE position
    ELSE position

\* the offsets onMouseMove gives the node for a pointer at (clientX, clientY)
\* (movable.ts 131-209)
moved(clientX, clientY) ==
    LET Dx == clientX - lastMousePosition.x
        Dy == clientY - lastMousePosition.y
        top == lastNodePosition.top + Dy
        left == lastNodePosition.left + Dx
        rect == getBoundingClientRect
        inside == insideBoundingRect
    IN  IF parent # "none"
        THEN [top |-> clampInside(top, rect.top, rect.bottom, Dy, boundY,
                                  inside.top, inside.bottom),
              left |-> clampInside(left, rect.left, rect.right, Dx, boundX,
                                   inside.left, inside.right)]
        ELSE [top |-> clampTotal(top, lastNodePosition.top, SigmaDy, boundY),
              left |-> clampTotal(left, lastNodePosition.left, SigmaDx, boundX)]

\* notifications dispatched, appended to the latest kept
Dispatch(names) ==
    LET all == notified \o names
        drop == IF Len(all) > MaxNotified THEN Len(all) - MaxNotified ELSE 0
    IN  SubSeq(all, drop + 1, Len(all))

Call(type, target, heard, dispatched) ==
    [type |-> type, target |-> target, heard |-> heard, dispatched |-> dispatched]

\* document.body.style after the mousedown of an instance whose `cursor`
\* is withCursor (movable.ts 259-262)
bodyStarted(withCursor) ==
    [userSelect |-> "none",
     cursor |-> IF withCursor THEN "grabbing" ELSE bodyStyle.cursor]

\* document.body.style after the end of an instance whose `cursor` is
\* withCursor (movable.ts 220-224)
bodyEnded(withCursor) ==
    [userSelect |-> "",
     cursor |-> IF withCursor /\ bodyStyle.cursor = "grabbing" THEN ""
                ELSE bodyStyle.cursor]

bodyOnStart == bodyStarted(cursor)

bodyOnEnd == bodyEnded(cursor)

\* ΣΔ forgotten at each press, as if it belonged to the session
totalResetOnPress == [x |-> 0, y |-> 0]

\* ΣΔx, ΣΔy after onMouseDown (movable.ts 234-266): it assigns neither
totalOnPress == [x |-> SigmaDx, y |-> SigmaDy]

\* ΣΔ advanced only while no boundary is configured
accumulateUnlessInside(sigma, position, last) ==
    IF parent # "none" THEN sigma ELSE sigma + position - last

\* ΣΔx += left - lastNodePosition.left (movable.ts 214-215)
accumulate(sigma, position, last) == sigma + position - last

\* the element cursors after addCursor (movable.ts 268-278)
addCursor ==
    IF cursor
    THEN [e \in Elements |->
            IF e = handle THEN "grab"
            ELSE IF e \in getIgnoredElements /\ elementCursor[e] = "" THEN "auto"
            ELSE elementCursor[e]]
    ELSE elementCursor

\* the element cursors after removeCursor (movable.ts 279-291)
removeCursor ==
    IF cursor
    THEN [e \in Elements |->
            IF e = handle
            THEN IF elementCursor[e] = "grab" THEN "" ELSE elementCursor[e]
            ELSE IF e \in getIgnoredElements /\ elementCursor[e] = "auto" THEN ""
            ELSE elementCursor[e]]
    ELSE elementCursor

\* removeEventListener forgotten: the listener stays on the old handle
keepEventListener(listeners, target) == listeners

\* handle.removeEventListener('mousedown', onMouseDown, true)
\* (movable.ts 302, 313)
removeEventListener(listeners, target) == listeners \ {target}

\* handle.addEventListener('mousedown', onMouseDown, true) (movable.ts 294,
\* 306): registering the same listener twice keeps one
addEventListener(listeners, target) == listeners \cup {target}

\* the release listener left on the window at the end of a session
windowOnEndKeepingRelease == windowListeners \ {"mousemove"}

\* window.removeEventListener of the session's listeners (movable.ts 227-228)
windowOnEnd == windowListeners \ {"mousemove", "mouseup"}

\* window.addEventListener of the session's listeners (movable.ts 264-265)
windowOnStart == windowListeners \cup {"mousemove", "mouseup"}

----------------------------------------------------------------------------
(* The handlers *)

\* an event no listener of the instance hears, or a call that returns early
Nothing(type, target, heard) ==
    /\ event' = Call(type, target, heard, <<>>)
    /\ UNCHANGED <<config, drag, dom, notified, attached, session, seen,
                   hostCursor, peer>>

\* movable.ts 234-266
onMouseDown(target, clientX, clientY) ==
    IF target \in getIgnoredElements
    THEN Nothing("mousedown", target, TRUE)
    ELSE /\ lastNodePosition' = [top |-> parseOffset(nodeStyle.top),
                                 left |-> parseOffset(nodeStyle.left)]
         /\ notified' = Dispatch(<<"start">>)
         /\ nodeStyle' = [nodeStyle EXCEPT !.position =
                            IF @ \in {"relative", "absolute", "fixed"}
                            THEN @ ELSE "relative"]
         /\ lastMousePosition' = [x |-> clientX, y |-> clientY]
         /\ bodyStyle' = bodyOnStart
         /\ elementCursor' = IF cursor
                             THEN [elementCursor EXCEPT ![handle] = "grabbing"]
                             ELSE elementCursor
         /\ windowListeners' = windowOnStart
         /\ event' = Call("mousedown", target, TRUE, <<"start">>)
         /\ session' = [mouse |-> IF Free THEN lastMousePosition' ELSE session.mouse,
                        node |-> IF Free THEN lastNodePosition' ELSE session.node,
                        body |-> IF Dragging THEN session.body ELSE bodyStyle]
         \* dispatchEvent (248-249) runs the listener before lines 252-263
         /\ seen' = [userSelect |-> bodyStyle.userSelect,
                     position |-> nodeStyle.position]
         /\ SigmaDx' = totalOnPress.x
         /\ SigmaDy' = totalOnPress.y
         /\ UNCHANGED <<config, layout, mousedownListeners, pendingTicks,
                        attached, hostCursor, peer>>

\* movable.ts 130-217
onMouseMove(clientX, clientY) ==
    LET to == moved(clientX, clientY)
        newSigmaDx == accumulate(SigmaDx, to.left, lastNodePosition.left)
        newSigmaDy == accumulate(SigmaDy, to.top, lastNodePosition.top)
    IN  /\ Abs(to.left) <= Px(MaxOffset) /\ Abs(to.top) <= Px(MaxOffset)
        /\ Abs(newSigmaDx) <= Px(MaxOffset) /\ Abs(newSigmaDy) <= Px(MaxOffset)
        /\ lastMousePosition' = [x |-> clientX, y |-> clientY]
        /\ nodeStyle' = [nodeStyle EXCEPT !.left = Length(to.left),
                                          !.top = Length(to.top)]
        /\ SigmaDx' = newSigmaDx
        /\ SigmaDy' = newSigmaDy
        /\ lastNodePosition' = to
        /\ event' = Call("mousemove", "window", TRUE, <<>>)
        /\ UNCHANGED <<config, layout, elementCursor, bodyStyle,
                       mousedownListeners, windowListeners, pendingTicks,
                       notified, attached, session, seen, hostCursor, peer>>

\* movable.ts 219-232
end ==
    /\ bodyStyle' = bodyOnEnd
    /\ elementCursor' = IF cursor THEN [elementCursor EXCEPT ![handle] = "grab"]
                        ELSE elementCursor
    /\ windowListeners' = windowOnEnd
    /\ notified' = Dispatch(<<"end">>)
    /\ event' = Call("mouseup", "window", TRUE, <<"end">>)
    /\ UNCHANGED <<config, drag, nodeStyle, layout, mousedownListeners,
                   pendingTicks, attached, session, seen, hostCursor, peer>>

\* the browser delivers mousedown at `target`: the capturing listener of a
\* handle hears it at the handle and at everything inside it
MouseDown(target, clientX, clientY) ==
    IF \E h \in mousedownListeners : target \in {h} \cup Descendants(h)
    THEN onMouseDown(target, clientX, clientY)
    ELSE Nothing("mousedown", target, FALSE)

\* the browser delivers mousemove to the window
MouseMove(clientX, clientY) ==
    IF "mousemove" \in windowListeners
    THEN onMouseMove(clientX, clientY)
    ELSE Nothing("mousemove", "window", FALSE)

\* the browser delivers mouseup to the window
MouseUp ==
    IF "mouseup" \in windowListeners THEN end ELSE Nothing("mouseup", "window", FALSE)

\* a callback of tick().then(...) runs (movable.ts 295-297, 307-309)
Tick ==
    /\ pendingTicks > 0
    /\ pendingTicks' = pendingTicks - 1
    /\ elementCursor' = addCursor
    /\ event' = Call("tick", "none", TRUE, <<>>)
    /\ UNCHANGED <<config, drag, nodeStyle, layout, bodyStyle,
                   mousedownListeners, windowListeners, notified, attached,
                   session, seen, hostCursor, peer>>

\* movable.ts 300-311
update(parameters) ==
    LET to == input(parameters)
        removed == removeEventListener(mousedownListeners, handle)
    IN  /\ to.enabled => pendingTicks < MaxPending
        /\ elementCursor' = removeCursor
        /\ parent' = to.parent
        /\ normalizedDelta' = to.normalizedDelta
        /\ handle' = to.handle
        /\ enabled' = to.enabled
        /\ ignore' = to.ignore
        /\ cursor' = to.cursor
        /\ mousedownListeners' = IF to.enabled
                                 THEN addEventListener(removed, to.handle)
                                 ELSE removed
        /\ pendingTicks' = IF to.enabled THEN pendingTicks + 1 ELSE pendingTicks
        /\ event' = Call("update", "none", TRUE, <<>>)
        /\ UNCHANGED <<drag, nodeStyle, layout, bodyStyle, windowListeners,
                       notified, attached, session, seen, hostCursor, peer>>

\* movable.ts 312-315
destroy ==
    /\ attached
    /\ attached' = FALSE
    /\ mousedownListeners' = removeEventListener(mousedownListeners, handle)
    /\ elementCursor' = removeCursor
    /\ event' = Call("destroy", "none", TRUE, <<>>)
    /\ UNCHANGED <<config, drag, nodeStyle, layout, bodyStyle, windowListeners,
                   pendingTicks, notified, session, seen, hostCursor, peer>>

\* the state once movable(node, parameters) has returned (movable.ts 105-114,
\* 293-298), for a node and a document as the host left them; a second
\* instance, attached with no parameters, is idle
Attach(parameters, box, style, body, cursors) ==
    LET to == input(parameters)
    IN  /\ parent = to.parent
        /\ normalizedDelta = to.normalizedDelta
        /\ handle = to.handle
        /\ enabled = to.enabled
        /\ ignore = to.ignore
        /\ cursor = to.cursor
        /\ lastMousePosition = [x |-> 0, y |-> 0]
        /\ lastNodePosition = [top |-> 0, left |-> 0]
        /\ SigmaDx = 0
        /\ SigmaDy = 0
        /\ nodeStyle = style
        /\ layout = box
        /\ elementCursor = cursors
        /\ hostCursor = cursors
        /\ bodyStyle = body
        /\ mousedownListeners = IF to.enabled THEN addEventListener({}, to.handle)
                                ELSE {}
        /\ windowListeners = {}
        /\ pendingTicks = IF to.enabled THEN 1 ELSE 0
        /\ event = Call("attach", "none", TRUE, <<>>)
        /\ notified = <<>>
        /\ attached = TRUE
        /\ session = [mouse |-> lastMousePosition, node |-> lastNodePosition,
                      body |-> body]
        /\ seen = [userSelect |-> body.userSelect,
                   position |-> style.position]
        /\ peer = [windowListeners |-> {}, cursor |-> TRUE]

----------------------------------------------------------------------------
(* The inputs *)

Parameters(parents, limits, handles, enableds, ignores, cursors) ==
    {[parent |-> p, delta |-> l, handle |-> h, enabled |-> e, ignore |-> i,
      cursor |-> c] :
        p \in parents, l \in limits, h \in handles, e \in enableds,
        i \in ignores, c \in cursors}

Number(n) == [form |-> "number", value |-> n]
Percent(n) == [form |-> "percent", value |-> n]
Malformed == [form |-> "malformed", value |-> 0]
\* limit.delta given as one value is the limit of both axes
Both(raw) == [x |-> raw, y |-> raw]

\* a 1px x 1px node, statically placed at (1px, 0.5px)
Boxes == {[x |-> Px(1), y |-> 1, width |-> Px(1), height |-> Px(1)]}

\* the node as the host left it: not positioned, its offsets auto
Static == [position |-> "static", left |-> Auto, top |-> Auto]

\* no element has a cursor of its own
Unstyled == [e \in Elements |-> ""]

\* document.body.style as the host left it
Bodies ==
    {[userSelect |-> "", cursor |-> ""],
     [userSelect |-> "text", cursor |-> "pointer"]}

ClientXs == {Px(i) : i \in 0..MaxClientX}
ClientYs == {Px(i) : i \in 0..MaxClientY}

----------------------------------------------------------------------------
(* Spec: the life of an instance, from attach on, under every call *)

LifeParameters ==
    Parameters({{}}, {Both(Number(1))}, {{}, {"grip"}}, {{}, {FALSE}},
               {{}, {".field"}}, {{}, {FALSE}})

Init == \E p \in LifeParameters, body \in Bodies :
            Attach(p, CHOOSE b \in Boxes : TRUE, Static, body, Unstyled)

Next ==
    \/ \E target \in Elements : MouseDown(target, 0, 0)
    \/ \E x \in {0, Px(1)} : MouseMove(x, 0)
    \/ MouseUp
    \/ Tick
    \/ \E p \in LifeParameters : update(p)
    \/ destroy

Spec == Init /\ [][Next]_vars

----------------------------------------------------------------------------------------------------------------------------------------
(* Drag sessions of an enabled instance, press to release, for every       *)
(* pointer path: SpecInside under a boundary, SpecTotal without one        *)

Limits ==
    {Both(Number(0)), Both(Number(1)), Both(Percent(50)), Both(Malformed),
     [x |-> Number(1), y |-> Number(0)]}

\* the node positioned by the host, its offsets not whole pixels
Positioned == [position |-> "absolute", left |-> Length(1), top |-> Length(-1)]

Untouched == [userSelect |-> "", cursor |-> ""]

Sessions ==
    \/ \E x \in ClientXs, y \in ClientYs : ~Dragging /\ MouseDown("node", x, y)
    \/ \E x \in ClientXs, y \in ClientYs : Dragging /\ MouseMove(x, y)
    \/ Dragging /\ MouseUp

InitInside ==
    \E p \in Parameters({{"screen"}, {"container"}}, Limits, {{}}, {{}}, {{}}, {{}}),
       box \in Boxes, style \in {Static, Positioned} :
        Attach(p, box, style, Untouched, Unstyled)

SpecInside == InitInside /\ [][Sessions]_vars

InitTotal ==
    \E p \in Parameters({{}}, Limits, {{}}, {{}}, {{}}, {{}}), box \in Boxes,
       style \in {Static, Positioned} :
        Attach(p, box, style, Untouched, Unstyled)

SpecTotal == InitTotal /\ [][Sessions]_vars

----------------------------------------------------------------------------
(* The claims *)

\* the last call was a mousemove the session's listener heard
Moved == event.type = "mousemove" /\ event.heard

\* the node's box lies within the boundary, each edge let out by the margin
WithinBoundary ==
    LET rect == getBoundingClientRect
        inside == insideBoundingRect
    IN  /\ inside.top - boundY <= rect.top
        /\ rect.bottom <= inside.bottom + boundY
        /\ inside.left - boundX <= rect.left
        /\ rect.right <= inside.right + boundX

\* C1: with a boundary configured, after every move of every drag sequence
\* the node's bounding box lies within the boundary let out by the per-axis
\* margins (the node of this model is smaller than either boundary).
C1_BoxWithinBoundary == (Moved /\ parent # "none") => WithinBoundary

\* the pointer's movement in a step
PointerDx == lastMousePosition.x' - lastMousePosition.x
PointerDy == lastMousePosition.y' - lastMousePosition.y

\* C8 on one axis: the candidate box is the box moved by the pointer's
\* delta; past the near edge let out by the margin the new box's near edge is
\* at that line, else past the far edge let out by the margin its far edge is
\* at that line, else the offset is the current offset plus the delta
MinimalCorrection(near, far, d, bound, insideNear, insideFar, newNear, newFar,
                  offset, newOffset) ==
    IF near + d < insideNear - bound THEN newNear = insideNear - bound
    ELSE IF far + d > insideFar + bound THEN newFar = insideFar + bound
    ELSE newOffset = offset + d

\* C8: under a boundary one move applies the minimal correction on each
\* axis: near edge exactly at R.near - margin, else far edge exactly at
\* R.far + margin, else the candidate offset unchanged.
C8_MinimalCorrection ==
    [][(Moved' /\ parent # "none") =>
        LET rect == getBoundingClientRect
            new == getBoundingClientRect'
            inside == insideBoundingRect
        IN  /\ MinimalCorrection(rect.top, rect.bottom, PointerDy, boundY,
                                 inside.top, inside.bottom, new.top, new.bottom,
                                 lastNodePosition.top, nodeStyle.top.v')
            /\ MinimalCorrection(rect.left, rect.right, PointerDx, boundX,
                                 inside.left, inside.right, new.left, new.right,
                                 lastNodePosition.left, nodeStyle.left.v')]_vars

\* C2: with no boundary and both limits above 0, after every move the total
\* displacement is within the limit on each axis.
C2_TotalWithinLimit ==
    (Moved /\ parent = "none" /\ boundX > 0 /\ boundY > 0) =>
        (Abs(SigmaDx) <= boundX /\ Abs(SigmaDy) <= boundY)

\* a half-pixel limit met on both axes, from above on x and from below on y:
\* whole-pixel pointer deltas reach it only by being cut short
C2_Witness ==
    /\ Moved /\ parent = "none"
    /\ normalizedDelta.x.unit = "%" /\ normalizedDelta.y.unit = "%"
    /\ SigmaDx = boundX /\ SigmaDy = -boundY /\ boundX > 0 /\ boundY > 0

\* v kept within lo..hi
Clamped(v, lo, hi) == IF v < lo THEN lo ELSE IF v > hi THEN hi ELSE v

\* C9 on one axis
TotalClamped(bound, sigma, newSigma, d, offset, newOffset, styled) ==
    /\ styled = Length(newOffset)
    /\ newOffset - offset = newSigma - sigma
    /\ newSigma = IF bound > 0 THEN Clamped(sigma + d, -bound, bound) ELSE sigma + d

C7_FreeMovement ==
    (Moved /\ Free) =>
        /\ lastNodePosition.left = session.node.left + (lastMousePosition.x - session.mouse.x)
        /\ lastNodePosition.top = session.node.top + (lastMousePosition.y - session.mouse.y)
        /\ nodeStyle.left = Length(lastNodePosition.left)
        /\ nodeStyle.top = Length(lastNodePosition.top)

\* a later session: offsets other than 0 were read at the press and the
\* pointer has travelled on both axes
C7_Witness ==
    /\ Moved /\ Free
    /\ session.node.left # 0 /\ session.node.top # 0
    /\ lastMousePosition.x # session.mouse.x
    /\ lastMousePosition.y # session.mouse.y

\* C3: start and end notifications strictly alternate, beginning with start,
\* and a mouseup that arrives while no session is in progress emits nothing.
C3_StartEndAlternate ==
    /\ \A i \in 1..(Len(notified) - 1) : notified[i] # notified[i + 1]
    /\ Len(notified) = 1 => notified[1] = "start"
    /\ (event.type = "mouseup" /\ ~event.heard) => event.dispatched = <<>>

\* the press target is an ignored descendant or is contained in one
InIgnored(target) ==
    \E e \in getIgnoredElements : target \in {e} \cup Descendants(e)

\* C4: a press on an ignored descendant, on an element inside one, or while
\* enabled = false emits no start, installs no global listener and leaves
\* the instance as it was.
C4_IgnoredPressDoesNothing ==
    [][(event'.type = "mousedown" /\ (InIgnored(event'.target) \/ ~enabled)) =>
        /\ event'.dispatched = <<>>
        /\ notified' = notified
        /\ windowListeners' = windowListeners]_vars

\* C5: never two press listeners at once, and after an update made while
\* idle exactly one, on the resolved handle, when enabled and none when not.
C5_OnePressListener ==
    /\ Cardinality(mousedownListeners) <= 1
    /\ (event.type = "update" /\ ~Dragging) =>
           mousedownListeners = IF enabled THEN {handle} ELSE {}

\* an update made after a whole drag has moved the listener to the grip
C5_Witness ==
    /\ event.type = "update" /\ ~Dragging /\ attached
    /\ enabled /\ handle = "grip" /\ mousedownListeners = {"grip"}
    /\ notified = <<"start", "end">>
    /\ elementCursor["node"] = ""

\* C6: after the end notification the body's user-select and cursor are what
\* they were immediately before the press.
C6_BodyRestored ==
    (event.type = "mouseup" /\ event.heard) => bodyStyle = session.body

\* C10: destroy during a session removes the session's window listeners:
\* after it no mousemove is heard and no mouseup emits an end.
C10_DestroyEndsSession ==
    /\ event.type = "destroy" => windowListeners = {}
    /\ (~attached /\ event.type = "mousemove") => ~event.heard
    /\ (~attached /\ event.type = "mouseup") => event.dispatched = <<>>


\* C11: once the action is detached, an update is a no-op: it installs no
\* press listener and schedules no deferred addCursor, and a press made after
\* detach starts no session and notifies nobody.
C11_UpdateAfterDestroyIsNoOp ==
    [][/\ (~attached /\ event'.type = "update") =>
            /\ mousedownListeners' = mousedownListeners
            /\ pendingTicks' = pendingTicks
       /\ (~attached /\ event'.type = "mousedown") =>
            /\ event'.dispatched = <<>>
            /\ windowListeners' = windowListeners]_vars


\* ---- the cursors of mount and unmount, on elements the host has styled ----

\* style.cursor as the host left it: its own "grab" or "pointer" on the node,
\* its own "auto" on the field
HostCursors ==
    {[e \in Elements |-> IF e = "node" THEN onNode
                         ELSE IF e = "field" THEN onField ELSE ""] :
        onNode \in {"", "grab", "pointer"}, onField \in {"", "auto"}}

InitCursor ==
    \E p \in LifeParameters : \E cursors \in HostCursors :
        Attach(p, CHOOSE b \in Boxes : TRUE, Static, Untouched, cursors)

\* the action is updated while attached, destroyed once, and the deferred
\* addCursor runs whenever the microtask queue lets it
NextCursor ==
    \/ Tick
    \/ \E p \in LifeParameters : attached /\ update(p)
    \/ destroy

SpecCursor == InitCursor /\ [][NextCursor]_vars

\* C12: removeCursor reverts what addCursor did and nothing else: right after
\* an unmount (update or destroy), with no press in between, every element
\* has the cursor the host gave it, whether or not addCursor had run.
C12_UnmountRevertsOnlyMount ==
    event.type \in {"update", "destroy"} => elementCursor = hostCursor


\* ---- drag sessions with updates between them that switch the mode ----

SwitchParameters ==
    Parameters({{}, {"screen"}}, {Both(Number(1))}, {{}}, {{}}, {{}}, {{}})

InitSwitch ==
    \E p \in SwitchParameters :
        Attach(p, CHOOSE b \in Boxes : TRUE, Static, Untouched, Unstyled)

NextSwitch ==
    \/ Sessions
    \/ Tick
    \/ \E p \in SwitchParameters : ~Dragging /\ update(p)

SpecSwitch == InitSwitch /\ [][NextSwitch]_vars

\* the change of the offsets a step applies to the node
AppliedDx == lastNodePosition.left' - lastNodePosition.left
AppliedDy == lastNodePosition.top' - lastNodePosition.top

\* C13 as claimed: while a boundary is configured a move leaves ΣΔx and ΣΔy
\* unchanged.
C13_NotTrackedInside ==
    [][(Moved' /\ parent # "none") =>
           (SigmaDx' = SigmaDx /\ SigmaDy' = SigmaDy)]_vars

\* C13: with or without a boundary, a move adds the change it applied to
\* left and top to ΣΔx and ΣΔy; under a boundary the totals are not read,
\* but they are kept, and count against the limit once an update has removed
\* the boundary.
C13_TrackedInBothModes ==
    [][Moved' => (/\ SigmaDx' = SigmaDx + AppliedDx
                  /\ SigmaDy' = SigmaDy + AppliedDy)]_vars

\* a move under a boundary has left a total behind
C13_Witness == Moved /\ parent # "none" /\ SigmaDx # 0


\* the node's travel since attach, when it was attached with no offsets
TravelX == nodeStyle.left.v
TravelY == nodeStyle.top.v

\* C14: ΣΔx and ΣΔy belong to the attachment: they start at 0 and no press,
\* release or update changes them, so with no boundary they are, in every
\* state, the node's travel since attach, and the limit bounds that travel
\* over all sessions.
C14_TotalSinceAttach ==
    parent = "none" =>
        /\ SigmaDx = TravelX /\ SigmaDy = TravelY
        /\ boundX > 0 => Abs(TravelX) <= boundX
        /\ boundY > 0 => Abs(TravelY) <= boundY

\* a move of a second session, made after an update, with the node at the
\* limit
C14_Witness ==
    /\ Len(notified) >= 2
    /\ notified[Len(notified) - 1] = "end"
    /\ notified[Len(notified)] = "start"
    /\ Moved /\ ~enabled
    /\ boundX > 0 /\ TravelX = boundX


\* C15: on an accepted press the position fix and the start side effects
\* come before the movablestart dispatch: what its listener finds is text
\* selection already suppressed and the node already positioned
\* (relative, absolute or fixed).
C15_StartSeesEntryDone ==
    (event.type = "mousedown" /\ event.dispatched # <<>>) =>
        /\ seen.userSelect = "none"
        /\ seen.position \in {"relative", "absolute", "fixed"}


\* a session is in progress: the node's last notification is a movablestart
InSession == Len(notified) > 0 /\ notified[Len(notified)] = "start"

\* C16: the window carries this instance's mousemove and mouseup listeners
\* exactly while a session is in progress: none before the first press, both
\* from an accepted press to its release, none after it, over repeated
\* sessions and whatever updates are made during or between them.
C16_ListenersIffInSession ==
    windowListeners = IF InSession THEN {"mousemove", "mouseup"} ELSE {}

\* the release of a session during which an update disabled the action
C16_Witness ==
    /\ event.type = "mouseup" /\ event.heard
    /\ ~enabled /\ attached
    /\ windowListeners = {}


\* ---- two instances on one document ----
\* Each instance has its own closure, node and listeners; document.body and
\* the window are shared. A step is one run of one listener: the listeners
\* of the two instances for one event run one after the other.

\* onMouseDown of the second instance (movable.ts 234-266), for what it does
\* to the document
peerOnMouseDown ==
    /\ bodyStyle' = bodyStarted(peer.cursor)
    /\ peer' = [peer EXCEPT !.windowListeners = @ \cup {"mousemove", "mouseup"}]
    /\ event' = Call("mousedown", "peer", TRUE, <<>>)
    /\ UNCHANGED <<config, drag, nodeStyle, layout, elementCursor,
                   mousedownListeners, windowListeners, pendingTicks,
                   notified, attached, session, seen, hostCursor>>

\* end of the second instance (movable.ts 219-232), for what it does to the
\* document
peerEnd ==
    /\ "mouseup" \in peer.windowListeners
    /\ bodyStyle' = bodyEnded(peer.cursor)
    /\ peer' = [peer EXCEPT !.windowListeners = @ \ {"mousemove", "mouseup"}]
    /\ event' = Call("mouseup", "peer", TRUE, <<>>)
    /\ UNCHANGED <<config, drag, nodeStyle, layout, elementCursor,
                   mousedownListeners, windowListeners, pendingTicks,
                   notified, attached, session, seen, hostCursor>>

\* update of the second instance (movable.ts 299-311), for its `cursor`
peerUpdate(withCursor) ==
    /\ peer' = [peer EXCEPT !.cursor = withCursor]
    /\ event' = Call("update", "peer", TRUE, <<>>)
    /\ UNCHANGED <<config, drag, dom, notified, attached, session, seen,
                   hostCursor>>

InitTwo ==
    \E p \in LifeParameters, body \in Bodies :
        Attach(p, CHOOSE b \in Boxes : TRUE, Static, body, Unstyled)

NextTwo ==
    \/ \E x \in {0, Px(1)} : MouseDown("node", x, 0)
    \/ \E x \in {0, Px(1)} : MouseMove(x, 0)
    \/ MouseUp
    \/ Tick
    \/ peerOnMouseDown
    \/ peerEnd
    \/ \E c \in BOOLEAN : ~("mouseup" \in peer.windowListeners) /\ peerUpdate(c)

SpecTwo == InitTwo /\ [][NextTwo]_vars

\* C17: while one instance is in a session, the end of the other's session
\* leaves the document as the session in progress needs it: text selection
\* suppressed, and the body's cursor "grabbing" if the instance in session
\* shows cursors.
C17_ReleaseSparesOtherSession ==
    /\ (event.type = "mouseup" /\ event.target = "window" /\ event.heard
            /\ "mouseup" \in peer.windowListeners) =>
           /\ bodyStyle.userSelect = "none"
           /\ peer.cursor => bodyStyle.cursor = "grabbing"
    /\ (event.type = "mouseup" /\ event.target = "peer" /\ Dragging) =>
           /\ bodyStyle.userSelect = "none"
           /\ cursor => bodyStyle.cursor = "grabbing"


\* C18: once the action is destroyed and every deferred addCursor has run,
\* the handle has no "grab" cursor and no ignored element inside it has the
\* "auto" cursor (the host of this specification sets no cursor itself).
C18_NoCursorAfterDestroy ==
    (~attached /\ pendingTicks = 0) =>
        /\ elementCursor[handle] # "grab"
        /\ \A e \in getIgnoredElements : elementCursor[e] # "auto"

\* C19: once an update made while idle has disabled the action and every
\* deferred addCursor has run, the handle has no press listener and neither
\* it nor a handle of an earlier configuration has the "grab" cursor (no
\* session has ever started, so no release has set one).
C19_NoCursorWhileDisabled ==
    (attached /\ ~enabled /\ pendingTicks = 0 /\ notified = <<>>) =>
        /\ handle \notin mousedownListeners
        /\ \A e \in Elements : elementCursor[e] # "grab"

\* C20: after the release of a session, whatever updates were made during
\* it, neither document.body nor any element has the "grabbing" cursor.
C20_NoGrabbingAfterRelease ==
    (event.type = "mouseup" /\ event.heard) =>
        /\ bodyStyle.cursor # "grabbing"
        /\ \A e \in Elements : elementCursor[e] # "grabbing"

====
